---------------------------- MODULE Spec2Model ----------------------------
(***************************************************************************)
(* Model of edgedb/lang/common/lang/python/code/__init__.py: the class     *)
(* Code, its assembler to_code, its disassembler from_code, the stack      *)
(* depth analysis _calc_stack_size and the flag computation _calc_flags.   *)
(*                                                                         *)
(* Representation.                                                         *)
(*  - An instruction object is identified by its 0-based position in       *)
(*    Code.ops (the list holds distinct objects).  A jump operand          *)
(*    (op.jrel / op.jabs) is the position of the referenced object,        *)
(*    Dangling for an object that is not in ops, or ExtObj for the         *)
(*    EXTENDED_ARG object from_code creates and leaves out of ops.         *)
(*  - ops is a sequence of items [cls, sym, role, target, arg, line, rep]  *)
(*    (sym: op.local, op.name, op.const, op.cell or op.free; role: which   *)
(*    of op.cell and op.free is set; target: op.jrel or op.jabs); an       *)
(*    item with rep > 1 stands for rep consecutive identical operand-less  *)
(*    instructions without line annotation (a long list written            *)
(*    compactly); positions and lengths always count every instruction.    *)
(*  - The byte string co_code is a sequence of chunks <<byte, n>>: n       *)
(*    copies of byte.  Addresses always count every byte.                  *)
(*  - None is "" for names, "None" for constants and the docstring,        *)
(*    NoLine for a missing lineno attribute; kwonlyargs = None is the      *)
(*    field has_kwonlyargs = FALSE.                                        *)
(*  - Python integers are unbounded.  An operand value (op.arg, a pool     *)
(*    index) is a record [hi, lo] for the integer hi * 65536 + lo with     *)
(*    0 <= lo < 65536, so that values past 32 bits are exact; addresses,   *)
(*    positions, lines and depths are plain integers.                      *)
(*  - assert statements are executed (the interpreter runs without -O).   *)
(***************************************************************************)
EXTENDS Integers, Sequences, FiniteSets, TLC

\* ------------------------------------------------------------------ bounds
\* Longest instruction list of the assembler's inputs.
MaxOps == 2
\* Longest instruction list of the stack analysis' inputs.
MaxStackOps == 3
\* Most jump instructions in one input of the stack analysis.
MaxJumps == 2

\* Most instructions in the byte string of a code object given to from_code.
MaxDecOps == 3

\* --------------------------------------------------------------- constants
CO_OPTIMIZED == 1
CO_NEWLOCALS == 2
CO_VARARGS == 4
CO_VARKEYWORDS == 8
CO_GENERATOR == 32
CO_NOFREE == 64
\* 0xFFFF, the largest operand the two operand bytes hold.
MaxU16 == 65535
\* The default of startdepths.get(op, -100000).
NoDepth == -100000

\* A missing lineno attribute.
NoLine == -1
\* A jump operand that references an instruction object outside ops.
Dangling == -1
\* A jump operand that references the EXTENDED_ARG object from_code left out of ops.
ExtObj == -2

\* ------------------------------------------------------ instruction catalog
\* The classes of the opcodes module the model uses, with CPython's numbers.
OpClasses ==
    {"POP_TOP", "NOP", "YIELD_VALUE", "STORE_NAME", "FOR_ITER", "LOAD_CONST",
     "LOAD_NAME", "BUILD_MAP", "JUMP_FORWARD", "JUMP_ABSOLUTE",
     "POP_JUMP_IF_FALSE", "SETUP_EXCEPT", "SETUP_FINALLY", "LOAD_FAST",
     "LOAD_DEREF", "EXTENDED_ARG"}

\* op.code: the opcode byte.
OpCode(cls) ==
    CASE cls = "POP_TOP" -> 1
      [] cls = "NOP" -> 9
      [] cls = "YIELD_VALUE" -> 86
      [] cls = "STORE_NAME" -> 90
      [] cls = "FOR_ITER" -> 93
      [] cls = "LOAD_CONST" -> 100
      [] cls = "LOAD_NAME" -> 101
      [] cls = "BUILD_MAP" -> 105
      [] cls = "JUMP_FORWARD" -> 110
      [] cls = "JUMP_ABSOLUTE" -> 113
      [] cls = "POP_JUMP_IF_FALSE" -> 114
      [] cls = "SETUP_EXCEPT" -> 121
      [] cls = "SETUP_FINALLY" -> 122
      [] cls = "LOAD_FAST" -> 124
      [] cls = "LOAD_DEREF" -> 136
      [] cls = "EXTENDED_ARG" -> 144

\* The operand category: which of has_local, has_name, has_free, has_const,
\* has_jrel, has_jabs holds, RAW for has_arg alone, NONE for no operand.
Category(cls) ==
    CASE cls \in {"POP_TOP", "NOP", "YIELD_VALUE"} -> "NONE"
      [] cls \in {"STORE_NAME", "LOAD_NAME"} -> "NAME"
      [] cls = "LOAD_CONST" -> "CONST"
      [] cls = "LOAD_FAST" -> "LOCAL"
      [] cls = "LOAD_DEREF" -> "FREE"
      [] cls \in {"FOR_ITER", "JUMP_FORWARD", "SETUP_EXCEPT", "SETUP_FINALLY"} -> "JREL"
      [] cls \in {"JUMP_ABSOLUTE", "POP_JUMP_IF_FALSE"} -> "JABS"
      [] cls \in {"BUILD_MAP", "EXTENDED_ARG"} -> "RAW"

\* op.has_arg
HasArg(cls) == Category(cls) # "NONE"

\* op.has_jrel or op.has_jabs
IsJump(cls) == Category(cls) \in {"JREL", "JABS"}

\* op.stack_effect
StackEffect(cls) ==
    CASE cls \in {"POP_TOP", "STORE_NAME", "POP_JUMP_IF_FALSE"} -> -1
      [] cls \in {"LOAD_CONST", "LOAD_NAME", "LOAD_FAST", "LOAD_DEREF",
                  "BUILD_MAP", "FOR_ITER"} -> 1
      [] OTHER -> 0

\* opcodes.OPMAP: the class of an opcode byte; a byte outside OpBytes raises KeyError.
OpBytes == {OpCode(c) : c \in OpClasses}

OPMAP(b) == CHOOSE c \in OpClasses : OpCode(c) = b

\* ----------------------------------------------------------- operand values
\* The integer x as an operand value.
Wide(x) == [hi |-> x \div 65536, lo |-> x % 65536]

\* The operand value with arg >> 16 = hi and arg & 0xFFFF = lo.
WideOf(hi, lo) == [hi |-> hi, lo |-> lo]

\* arg > 0xFFFF
Above16(w) == w.hi > 0

\* arg > 0xFFFFFFFF
Above32(w) == w.hi > MaxU16

\* ------------------------------------------------------------- instructions
\* An instruction (or, with rep > 1, a run of rep operand-less instructions).
Instr(cls, sym, role, target, arg, line) ==
    [cls |-> cls, sym |-> sym, role |-> role, target |-> target, arg |-> arg,
     line |-> line, rep |-> 1]

Run(cls, n) ==
    [cls |-> cls, sym |-> "", role |-> "", target |-> 0, arg |-> Wide(0),
     line |-> NoLine, rep |-> n]

RECURSIVE ExpLen(_)
\* len(ops), counting every instruction of a run.
ExpLen(ops) == IF ops = <<>> THEN 0 ELSE Head(ops).rep + ExpLen(Tail(ops))

RECURSIVE OpAt(_, _)
\* ops[idx] for 0 <= idx < len(ops): the instruction at position idx.
OpAt(ops, idx) ==
    IF idx < Head(ops).rep THEN [Head(ops) EXCEPT !.rep = 1]
    ELSE OpAt(Tail(ops), idx - Head(ops).rep)

\* ops.index(jump): the position of the referenced object; Dangling and ExtObj
\* are not in the list (ValueError).
InOps(ops, target) == target >= 0 /\ target < ExpLen(ops)

\* -------------------------------------------------------------- byte strings
RECURSIVE CodeLen(_)
\* len(code)
CodeLen(code) == IF code = <<>> THEN 0 ELSE Head(code)[2] + CodeLen(Tail(code))

RECURSIVE CodeAt(_, _)
\* code[a] for 0 <= a < len(code)
CodeAt(code, a) ==
    IF a < Head(code)[2] THEN Head(code)[1] ELSE CodeAt(Tail(code), a - Head(code)[2])

RECURSIVE ChunkOf(_, _, _)
\* The index of the chunk that holds address a, scanning from chunk k at address base.
ChunkOf(code, a, k) ==
    IF a < code[k][2] THEN k ELSE ChunkOf(code, a - code[k][2], k + 1)

\* code[a] = b, for an address whose byte was appended on its own (an operand byte).
CodeSet(code, a, b) == [code EXCEPT ![ChunkOf(code, a, 1)] = <<b, 1>>]

\* code.append(b)
CodeAppend(code, b) == Append(code, <<b, 1>>)

\* Python's x & 0xFF on an unbounded integer (two's complement for x < 0; TLA+'s
\* % is the floored modulus, so x % 256 is that byte).
Byte(x) == x % 256

\* Python's x >> 8 (arithmetic shift: floored division).
Shr8(x) == x \div 256

\* ---------------------------------------------------------------- OrderedSet
Range(s) == {s[i] : i \in 1..Len(s)}

\* OrderedSet.add / append: append if absent.
PoolAdd(pool, x) == IF x \in Range(pool) THEN pool ELSE Append(pool, x)

RECURSIVE PoolExtend(_, _)
\* OrderedSet.extend
PoolExtend(pool, xs) ==
    IF xs = <<>> THEN pool ELSE PoolExtend(PoolAdd(pool, Head(xs)), Tail(xs))

\* OrderedSet.index (0-based), for a member.
PoolIndex(pool, x) == (CHOOSE i \in 1..Len(pool) : pool[i] = x) - 1

\* OrderedSet(iterable)
ToPool(xs) == PoolExtend(<<>>, xs)

\* ------------------------------------------------------------------ to_code
\* Lines 245-257: co_varnames seeded from the declared names, in the fixed order.
ArgPool(u) == IF u.args # <<>> THEN PoolExtend(<<>>, u.args) ELSE <<>>

SeedVarnames(u) ==
    LET v1 == ArgPool(u)
        v2 == IF u.kwonlyargs # <<>> THEN PoolExtend(v1, u.kwonlyargs) ELSE v1
        v3 == IF u.vararg # "" THEN PoolAdd(v2, u.vararg) ELSE v2
        v4 == IF u.varkwarg # "" THEN PoolAdd(v3, u.varkwarg) ELSE v3
    IN  IF u.varnames # <<>> THEN PoolExtend(v4, u.varnames) ELSE v4

RECURSIVE Harvest(_, _)
\* Stage 1 (lines 271-284): the pools after the scan of the instructions.
Harvest(ops, p) ==
    IF ops = <<>> THEN p
    ELSE LET op == Head(ops)
             cat == Category(op.cls)
             q == CASE cat = "LOCAL" -> [p EXCEPT !.co_varnames = PoolAdd(@, op.sym)]
                    [] cat = "NAME" -> [p EXCEPT !.co_names = PoolAdd(@, op.sym)]
                    [] cat = "FREE" /\ op.role = "cell" ->
                           [p EXCEPT !.co_cellvars = PoolAdd(@, op.sym)]
                    [] cat = "FREE" /\ op.role # "cell" ->
                           [p EXCEPT !.co_freevars = PoolAdd(@, op.sym)]
                    [] cat = "CONST" -> [p EXCEPT !.co_consts = PoolAdd(@, op.sym)]
                    [] OTHER -> p
         IN  Harvest(Tail(ops), q)

\* Lines 245-284: the pools and counts of the unit.
Pools(u) ==
    Harvest(u.ops,
            [co_varnames |-> SeedVarnames(u),
             co_argcount |-> Len(ArgPool(u)),
             co_kwonlyargcount |-> Len(u.kwonlyargs),
             co_names |-> <<>>,
             co_cellvars |-> <<>>,
             co_freevars |-> <<>>,
             co_consts |-> <<u.docstring>>])

RECURSIVE PadPos(_, _)
\* Lines 332-334: the (255, 0) entries that bring inc_pos to 255 or less.
PadPos(inc_pos, out) ==
    IF inc_pos > 255 THEN PadPos(inc_pos - 255, out \o <<255, 0>>) ELSE out

\* inc_pos after the loop of lines 332-334.
PosLeft(inc_pos) == IF inc_pos > 255 THEN ((inc_pos - 1) % 255) + 1 ELSE inc_pos

RECURSIVE PadLine(_, _, _)
\* Lines 335-340: the (inc_pos, 255) entries and the final entry.
PadLine(inc_pos, inc_line, out) ==
    IF inc_line > 255 THEN PadLine(0, inc_line - 255, out \o <<inc_pos, 255>>)
    ELSE IF inc_pos # 0 \/ inc_line # 0 THEN out \o <<inc_pos, inc_line>>
    ELSE out

\* Lines 326-340: the values lnotab.extend is given for one annotated instruction.
LnotabEntries(inc_pos, inc_line) ==
    IF inc_line = 0 /\ inc_pos = 0 THEN <<0, 0>>
    ELSE PadLine(PosLeft(inc_pos), inc_line, PadPos(inc_pos, <<>>))

\* bytearray.extend raises ValueError for a value outside range(256).
BytesOk(xs) == \A i \in 1..Len(xs) : xs[i] \in 0..255

\* An operand resolution that leaves out the shift of free references past the
\* cell pool.
ResolveArgFreeUnshifted(op, p) ==
    LET cat == Category(op.cls)
    IN  CASE cat = "LOCAL" -> <<Wide(PoolIndex(p.co_varnames, op.sym))>>
          [] cat = "NAME" -> <<Wide(PoolIndex(p.co_names, op.sym))>>
          [] cat = "FREE" /\ op.role = "cell" ->
                 <<Wide(PoolIndex(p.co_cellvars, op.sym))>>
          [] cat = "FREE" /\ op.role # "cell" ->
                 <<Wide(PoolIndex(p.co_freevars, op.sym))>>
          [] cat = "CONST" -> <<Wide(PoolIndex(p.co_consts, op.sym))>>
          [] cat \in {"JREL", "JABS"} -> <<Wide(0)>>
          [] cat = "RAW" -> <<op.arg>>
          [] OTHER -> <<>>

\* Lines 342-374: the operand of an instruction: <<arg>>, or <<>> for no_arg.
ResolveArg(op, p) ==
    LET cat == Category(op.cls)
    IN  CASE cat = "LOCAL" -> <<Wide(PoolIndex(p.co_varnames, op.sym))>>
          [] cat = "NAME" -> <<Wide(PoolIndex(p.co_names, op.sym))>>
          [] cat = "FREE" /\ op.role = "cell" ->
                 <<Wide(PoolIndex(p.co_cellvars, op.sym))>>
          [] cat = "FREE" /\ op.role # "cell" ->
                 <<Wide(PoolIndex(p.co_freevars, op.sym) + Len(p.co_cellvars))>>
          [] cat = "CONST" -> <<Wide(PoolIndex(p.co_consts, op.sym))>>
          [] cat \in {"JREL", "JABS"} -> <<Wide(0)>>
          [] cat = "RAW" -> <<op.arg>>
          [] OTHER -> <<>>

\* Lines 376-382: the bytes appended after the opcode byte for the operand a
\* (<<arg>> or <<>>): (arg >> 16) & 0xFF is hi's low byte, (arg >> 24) & 0xFF
\* the next byte of hi.
ArgBytes(a) ==
    IF a = <<>> THEN <<>>
    ELSE (IF Above16(a[1])
          THEN <<OpCode("EXTENDED_ARG"), Byte(a[1].hi), Byte(Shr8(a[1].hi))>>
          ELSE <<>>)
         \o <<Byte(a[1].lo), Byte(Shr8(a[1].lo))>>

RECURSIVE AppendAll(_, _)
AppendAll(code, bs) ==
    IF bs = <<>> THEN code ELSE AppendAll(CodeAppend(code, Head(bs)), Tail(bs))

RECURSIVE Emit(_, _, _, _)
\* Stage 2 (lines 295-382): the loop over the instructions from position pos on;
\* a is the state of code, addrs, jumps, lnotab, lastlineno and lastlinepos.
Emit(ops, pos, p, a) ==
    IF ops = <<>> \/ a.err # "" THEN a
    ELSE LET op == Head(ops)
             addr == CodeLen(a.code)
             annotated == op.line # NoLine
             entries == IF annotated
                        THEN LnotabEntries(addr - a.lastlinepos, op.line - a.lastlineno)
                        ELSE <<>>
             cat == Category(op.cls)
             arg == ResolveArg(op, p)
             b == [code |-> AppendAll(Append(a.code, <<OpCode(op.cls), op.rep>>),
                                      ArgBytes(arg)),
                   addrs |-> Append(a.addrs, [pos |-> pos, addr |-> addr, rep |-> op.rep]),
                   jumps |-> CASE cat = "JREL" -> Append(a.jumps, <<"rel", addr, op.target>>)
                               [] cat = "JABS" -> Append(a.jumps, <<"abs", addr, op.target>>)
                               [] OTHER -> a.jumps,
                   lnotab |-> a.lnotab \o entries,
                   lastlineno |-> IF annotated THEN op.line ELSE a.lastlineno,
                   lastlinepos |-> IF annotated THEN addr ELSE a.lastlinepos,
                   err |-> ""]
         IN  IF ~BytesOk(entries)
             THEN [a EXCEPT !.err = "ValueError"]
             ELSE Emit(Tail(ops), pos + op.rep, p, b)

\* Lines 295-308: the locals of Stage 2 before its loop.
EmitStart(u) ==
    [code |-> <<>>, addrs |-> <<>>, jumps |-> <<>>, lnotab |-> <<>>,
     lastlineno |-> u.firstlineno, lastlinepos |-> 0, err |-> ""]

\* addrs[target] (line 388): the address recorded for the instruction object.
HasAddr(addrs, target) ==
    \E i \in 1..Len(addrs) : addrs[i].pos <= target /\ target < addrs[i].pos + addrs[i].rep

AddrOf(addrs, target) ==
    LET i == CHOOSE k \in 1..Len(addrs) :
                 addrs[k].pos <= target /\ target < addrs[k].pos + addrs[k].rep
    IN  addrs[i].addr + (target - addrs[i].pos)

\* Lines 388-390: the value resolved for a queued jump.
JumpValue(addrs, jump) ==
    IF jump[1] = "rel" THEN AddrOf(addrs, jump[3]) - (jump[2] + 3)
    ELSE AddrOf(addrs, jump[3])

\* The range check off by one: 0x10000 passes.
JumpTooFarOffByOne(to) == to > MaxU16 + 1

\* Line 392: the range check of Stage 3.
JumpTooFar(to) == to > MaxU16

\* Lines 395-396: the jump's two operand bytes patched.
Patch(code, jump, to) ==
    CodeSet(CodeSet(code, jump[2] + 1, Byte(to)), jump[2] + 2, Byte(Shr8(to)))

\* A relocation that leaves a jump whose target has no address unpatched.
RelocateSkippingUnknown(addrs, code, jump) ==
    IF ~HasAddr(addrs, jump[3]) THEN [err |-> "", code |-> code]
    ELSE IF JumpTooFar(JumpValue(addrs, jump)) THEN [err |-> "Exception", code |-> code]
    ELSE [err |-> "", code |-> Patch(code, jump, JumpValue(addrs, jump))]

\* Lines 387-396: one queued jump relocated.  addrs[jump[2]] raises KeyError;
\* a value above 0xFFFF raises Exception; any other value is patched.
Relocate(addrs, code, jump) ==
    IF ~HasAddr(addrs, jump[3]) THEN [err |-> "KeyError", code |-> code]
    ELSE IF JumpTooFar(JumpValue(addrs, jump)) THEN [err |-> "Exception", code |-> code]
    ELSE [err |-> "", code |-> Patch(code, jump, JumpValue(addrs, jump))]

\* --------------------------------------------------------- _calc_stack_size
\* startdepths.get(op, -100000)
GetDepth(sd, idx) == IF idx \in DOMAIN sd THEN sd[idx] ELSE NoDepth

\* startdepths[op] = depth
SetDepth(sd, idx, depth) ==
    [k \in DOMAIN sd \cup {idx} |-> IF k = idx THEN depth ELSE sd[k]]

\* A memo that skips every instruction entered before, at whatever depth.
WalkSkipsVisited(idx, depth, sn, sd) == idx \in sn \/ idx \in DOMAIN sd

\* A test that leaves out the active path and relies on the memo alone.
WalkSkipsShallower(idx, depth, sn, sd) == GetDepth(sd, idx) >= depth

\* Line 173: the instruction is on the active path, or was entered at least as deep.
WalkSkips(idx, depth, sn, sd) == idx \in sn \/ GetDepth(sd, idx) >= depth

\* A jump edge that carries the exit depth unchanged for every jump.
TargetDepthFlat(cls, depth) == depth

\* Lines 192-199: the depth propagated along the jump edge.
TargetDepth(cls, depth) ==
    IF cls \in {"SETUP_EXCEPT", "SETUP_FINALLY"} THEN depth + 3
    ELSE IF cls = "FOR_ITER" THEN depth - 2
    ELSE depth

\* A maxdepth that follows the current depth instead of its maximum.
MaxAfterLast(op, depth, m) == depth

\* Lines 180-181 and 194-197: maxdepth after the instruction's own effect and,
\* for a handler setup, after the depth of its jump edge.
MaxAfter(op, depth, m) ==
    LET m1 == IF depth > m THEN depth ELSE m
        t == TargetDepth(op.cls, depth)
    IN  IF IsJump(op.cls) /\ op.cls \in {"SETUP_EXCEPT", "SETUP_FINALLY"} /\ t > m1
        THEN t ELSE m1

\* Line 203: the instruction has no fall-through edge.
NoFallThrough(cls) == cls \in {"JUMP_ABSOLUTE", "JUMP_FORWARD"}

\* ---------------------------------------------------------------- _calc_flags
\* Lines 212-235.
ClassesOf(ops) == {ops[i].cls : i \in 1..Len(ops)}

RolesOf(ops) == {ops[i].role : i \in 1..Len(ops)}

\* A no-free test that looks at instructions tagged free and misses the
\* cell-tagged ones.
CalcFlagsByFreeRole(u) ==
    LET ops_set == ClassesOf(u.ops)
    IN  (IF {"LOAD_NAME", "STORE_NAME", "DELETE_NAME"} \cap ops_set = {}
         THEN CO_OPTIMIZED ELSE 0)
      + (IF "YIELD_VALUE" \in ops_set THEN CO_GENERATOR ELSE 0)
      + (IF "free" \notin RolesOf(u.ops) THEN CO_NOFREE ELSE 0)
      + (IF u.vararg # "" THEN CO_VARARGS ELSE 0)
      + (IF u.varkwarg # "" THEN CO_VARKEYWORDS ELSE 0)
      + (IF u.newlocals THEN CO_NEWLOCALS ELSE 0)

CalcFlags(u) ==
    LET ops_set == ClassesOf(u.ops)
    IN  (IF {"LOAD_NAME", "STORE_NAME", "DELETE_NAME"} \cap ops_set = {}
         THEN CO_OPTIMIZED ELSE 0)
      + (IF "YIELD_VALUE" \in ops_set THEN CO_GENERATOR ELSE 0)
      + (IF {c \in ops_set : Category(c) = "FREE"} = {} THEN CO_NOFREE ELSE 0)
      + (IF u.vararg # "" THEN CO_VARARGS ELSE 0)
      + (IF u.varkwarg # "" THEN CO_VARKEYWORDS ELSE 0)
      + (IF u.newlocals THEN CO_NEWLOCALS ELSE 0)

\* flags & bit, for a one-bit mask.
HasFlag(flags, bit) == (flags \div bit) % 2 = 1

\* ------------------------------------------------------------------ from_code
RECURSIVE LineStarts(_, _, _, _, _)
\* dis.findlinestarts (line 442), as in the CPython releases with 3-byte
\* instructions: the (address, line) pairs of co_lnotab, a pair being yielded
\* when the address advances, or at the end, and the line differs from the last
\* one yielded (last = NoLine: nothing yielded yet).
LineStarts(lnotab, addr, lineno, last, out) ==
    IF Len(lnotab) < 2
    THEN IF lineno # last THEN out \cup {<<addr, lineno>>} ELSE out
    ELSE LET byte_incr == lnotab[1]
             line_incr == lnotab[2]
             yield == byte_incr # 0 /\ lineno # last
         IN  LineStarts(SubSeq(lnotab, 3, Len(lnotab)),
                        addr + byte_incr,
                        lineno + line_incr,
                        IF yield THEN lineno ELSE last,
                        IF yield THEN out \cup {<<addr, lineno>>} ELSE out)

\* lines = dict(dis.findlinestarts(pycode))
LinesOf(b) == LineStarts(b.co_lnotab, 0, b.co_firstlineno, NoLine, {})

\* lines[i], NoLine for a KeyError.
LineAt(lines, i) ==
    IF \E l \in lines : l[1] = i THEN (CHOOSE l \in lines : l[1] = i)[2] ELSE NoLine

RECURSIVE ChunkEnd(_, _)
\* The address after the last byte of the chunk that holds address a.
ChunkEnd(code, a) ==
    IF a < Head(code)[2] THEN Head(code)[2]
    ELSE Head(code)[2] + ChunkEnd(Tail(code), a - Head(code)[2])

\* The number of consecutive operand-less instructions decoded as one item at
\* address i: up to the end of the chunk or the next address with a line.
RunLen(code, lines, i) ==
    LET stop == {l[1] : l \in {m \in lines : m[1] > i /\ m[1] < ChunkEnd(code, i)}}
                    \cup {ChunkEnd(code, i)}
    IN  IF LineAt(lines, i) # NoLine THEN 1
        ELSE (CHOOSE a \in stop : \A c \in stop : a <= c) - i

\* The integer of an operand value.  Python's integers are unbounded and the
\* model's are not: a value of 2^30 or more is held as 2^30, which lies past
\* every address, offset and pool index it is compared with.
WideInt(w) == IF w.hi >= 16384 THEN 16384 * 65536 ELSE w.hi * 65536 + w.lo

\* seq[arg] for a 0-based operand value: <<x>>, or <<>> for an IndexError.
Lookup(seq, w) ==
    IF w.hi = 0 /\ w.lo < Len(seq) THEN <<seq[w.lo + 1]>> ELSE <<>>

\* Lines 479-496: the symbolic operand of a decoded instruction; err names the
\* exception raised.
Symbolic(cls, arg, i, b) ==
    LET cat == Category(cls)
        none == [sym |-> "", role |-> "", target |-> 0, err |-> ""]
        cell == Lookup(b.co_cellvars, arg)
        free == Lookup(b.co_freevars, Wide(WideInt(arg) - Len(b.co_cellvars)))
        got == CASE cat = "NAME" -> Lookup(b.co_names, arg)
                 [] cat = "LOCAL" -> Lookup(b.co_varnames, arg)
                 [] cat = "CONST" -> Lookup(b.co_consts, arg)
                 [] OTHER -> <<>>
    IN  CASE cat = "JREL" -> [none EXCEPT !.target = i + WideInt(arg)]
          [] cat = "JABS" -> [none EXCEPT !.target = WideInt(arg)]
          [] cat \in {"NAME", "LOCAL", "CONST"} ->
                 IF got = <<>> THEN [none EXCEPT !.err = "IndexError"]
                 ELSE [none EXCEPT !.sym = got[1]]
          [] cat = "FREE" ->
                 IF cell # <<>> THEN [none EXCEPT !.sym = cell[1], !.role = "cell"]
                 ELSE IF free # <<>> THEN [none EXCEPT !.sym = free[1], !.role = "free"]
                 ELSE [none EXCEPT !.err = "IndexError"]
          [] OTHER -> none

\* extended_arg after an instruction with operand arg (lines 473-474): the held
\* value, as extended_arg >> 16, is replaced by an EXTENDED_ARG's operand and is
\* otherwise left as it is.
HeldAfter(cls, arg, ext) == IF cls = "EXTENDED_ARG" THEN WideInt(arg) ELSE ext

RECURSIVE Decode(_, _, _)
\* Stage 1 (lines 454-498): the loop from address d.i on.  d.table lists, for
\* every instruction object created, its address, its position in ops (inops
\* FALSE: an EXTENDED_ARG object, not appended) and the length of its run.
Decode(b, lines, d) ==
    LET code == b.co_code
        n == CodeLen(code)
        i == d.i
    IN  IF i >= n \/ d.err # "" THEN d
        ELSE IF CodeAt(code, i) \notin OpBytes THEN [d EXCEPT !.err = "KeyError"]
        ELSE LET cls == OPMAP(CodeAt(code, i))
                 line == LineAt(lines, i)
             IN  IF ~HasArg(cls)
                 THEN LET r == RunLen(code, lines, i)
                      IN  Decode(b, lines,
                              [d EXCEPT !.i = i + r,
                                        !.pos = @ + r,
                                        !.table = Append(@, [addr |-> i, pos |-> d.pos,
                                                             rep |-> r, inops |-> TRUE]),
                                        !.ops = Append(@, [Run(cls, r) EXCEPT !.line = line])])
                 ELSE IF i + 2 >= n THEN [d EXCEPT !.err = "IndexError"]
                 ELSE LET arg == WideOf(d.ext, CodeAt(code, i + 1) + CodeAt(code, i + 2) * 256)
                          s == Symbolic(cls, arg, i + 3, b)
                          held == HeldAfter(cls, arg, d.ext)
                      IN  IF cls = "EXTENDED_ARG"
                          THEN Decode(b, lines,
                                  [d EXCEPT !.i = i + 3,
                                            !.ext = held,
                                            !.table = Append(@, [addr |-> i, pos |-> d.pos,
                                                                 rep |-> 1, inops |-> FALSE])])
                          ELSE IF s.err # "" THEN [d EXCEPT !.err = s.err]
                          ELSE Decode(b, lines,
                                  [d EXCEPT !.i = i + 3,
                                            !.ext = held,
                                            !.pos = @ + 1,
                                            !.table = Append(@, [addr |-> i, pos |-> d.pos,
                                                                 rep |-> 1, inops |-> TRUE]),
                                            !.ops = Append(@, [cls |-> cls, sym |-> s.sym,
                                                               role |-> s.role,
                                                               target |-> s.target,
                                                               arg |-> arg, line |-> line,
                                                               rep |-> 1]),
                                            !.freevars = IF s.role = "free"
                                                         THEN PoolAdd(@, s.sym) ELSE @,
                                            !.cellvars = IF s.role = "cell"
                                                         THEN PoolAdd(@, s.sym) ELSE @])

\* Lines 432-447: the locals of from_code before Stage 1.
DecodeStart ==
    [i |-> 0, pos |-> 0, ext |-> 0, ops |-> <<>>, table |-> <<>>,
     freevars |-> <<>>, cellvars |-> <<>>, err |-> ""]

\* table[a] (lines 505, 507): whether an instruction object was created at address a.
InTable(table, a) ==
    \E k \in 1..Len(table) : table[k].addr <= a /\ a < table[k].addr + table[k].rep

\* The object table[a] as a jump operand: its position in ops, or ExtObj.
TableRef(table, a) ==
    LET k == CHOOSE j \in 1..Len(table) :
                 table[j].addr <= a /\ a < table[j].addr + table[j].rep
    IN  IF table[k].inops THEN table[k].pos + (a - table[k].addr) ELSE ExtObj

\* Stage 2 (lines 503-507): every jump operand replaced by the object at its address.
JumpsResolvable(ops, table) ==
    \A k \in 1..Len(ops) : IsJump(ops[k].cls) => InTable(table, ops[k].target)

ResolveJumps(ops, table) ==
    [k \in 1..Len(ops) |->
        IF IsJump(ops[k].cls)
        THEN [ops[k] EXCEPT !.target = TableRef(table, ops[k].target)]
        ELSE ops[k]]

\* varnames[lo:hi] for 0 <= lo: Python's slice, cut at the end of the tuple.
Slice(seq, lo, hi) ==
    LET h == IF hi > Len(seq) THEN Len(seq) ELSE hi
    IN  IF lo >= h THEN <<>> ELSE SubSeq(seq, lo + 1, h)

\* Stage 3 (lines 513-534): the local pool partitioned; err for an IndexError.
Partition(b) ==
    LET varnames == b.co_varnames
        stop1 == b.co_argcount + b.co_kwonlyargcount
        hasva == HasFlag(b.co_flags, CO_VARARGS)
        haskw == HasFlag(b.co_flags, CO_VARKEYWORDS)
        stop2 == IF hasva THEN stop1 + 1 ELSE stop1
        stop3 == IF haskw THEN stop2 + 1 ELSE stop2
    IN  [args |-> ToPool(Slice(varnames, 0, b.co_argcount)),
         kwonlyargs |-> ToPool(Slice(varnames, b.co_argcount, stop1)),
         vararg |-> IF hasva /\ stop1 < Len(varnames) THEN varnames[stop1 + 1] ELSE "",
         varkwarg |-> IF haskw /\ stop2 < Len(varnames) THEN varnames[stop2 + 1] ELSE "",
         varnames |-> ToPool(Slice(varnames, stop3, Len(varnames))),
         err |-> IF (hasva /\ stop1 >= Len(varnames)) \/ (haskw /\ stop2 >= Len(varnames))
                 THEN "IndexError" ELSE ""]

\* Lines 538-541: the docstring is co_consts[0] when that is a string.
DocOf(b) == IF Len(b.co_consts) > 0 THEN b.co_consts[1] ELSE "None"

\* from_code (lines 427-557): [err, unit]; unit is meaningful when err = "".
FromCode(b) ==
    LET d == Decode(b, LinesOf(b), DecodeStart)
        part == Partition(b)
        e == IF d.err # "" THEN d.err
             ELSE IF ~JumpsResolvable(d.ops, d.table) THEN "KeyError"
             ELSE part.err
    IN  [err |-> e,
         unit |-> IF e # "" THEN <<>>
                  ELSE <<[ops |-> ResolveJumps(d.ops, d.table),
                          args |-> part.args,
                          kwonlyargs |-> part.kwonlyargs,
                          has_kwonlyargs |-> TRUE,
                          vararg |-> part.vararg,
                          varkwarg |-> part.varkwarg,
                          varnames |-> part.varnames,
                          newlocals |-> HasFlag(b.co_flags, CO_NEWLOCALS),
                          firstlineno |-> b.co_firstlineno,
                          docstring |-> DocOf(b),
                          freevars |-> d.freevars,
                          cellvars |-> d.cellvars,
                          filename |-> b.co_filename,
                          name |-> b.co_name]>>]

\* --------------------------------------------------------------------- inputs
\* Code(ops, **meta): a Code Unit.
MkUnit(ops, meta) ==
    [ops |-> ops,
     args |-> meta.args,
     kwonlyargs |-> meta.kwonlyargs,
     has_kwonlyargs |-> meta.has_kwonlyargs,
     vararg |-> meta.vararg,
     varkwarg |-> meta.varkwarg,
     varnames |-> meta.varnames,
     newlocals |-> meta.newlocals,
     firstlineno |-> meta.firstlineno,
     docstring |-> meta.docstring,
     freevars |-> <<>>,
     cellvars |-> <<>>,
     filename |-> "<string>",
     name |-> "<code>"]

\* Code(ops): every keyword at its default (lines 89-93), kwonlyargs = None.
MetaDefault ==
    [args |-> <<>>, kwonlyargs |-> <<>>, has_kwonlyargs |-> FALSE, vararg |-> "",
     varkwarg |-> "", varnames |-> <<>>, newlocals |-> FALSE, firstlineno |-> 0,
     docstring |-> "None"]

\* A module-level code block: no parameters, kwonlyargs = ().
MetaModule == [MetaDefault EXCEPT !.has_kwonlyargs = TRUE, !.firstlineno = 1]

\* A function: def f(a, *va, b, **kw) with a docstring and a declared local.
MetaFunction ==
    [args |-> <<"a">>, kwonlyargs |-> <<"b">>, has_kwonlyargs |-> TRUE, vararg |-> "va",
     varkwarg |-> "kw", varnames |-> <<"x">>, newlocals |-> TRUE, firstlineno |-> 1,
     docstring |-> "doc"]

Metas == {MetaDefault, MetaModule, MetaFunction}

\* The operand values of the raw-operand instructions: 0, 0xFFFF, 0x10000, 2^32.
RawValues == {Wide(0), Wide(MaxU16), Wide(MaxU16 + 1), WideOf(MaxU16 + 1, 0)}

\* The instructions without a jump operand of the assembler's inputs.
PlainInstrs ==
    {Instr(c, "", "", 0, Wide(0), NoLine) : c \in {"POP_TOP", "YIELD_VALUE"}}
    \cup {Instr("LOAD_CONST", k, "", 0, Wide(0), NoLine) : k \in {"None", "k"}}
    \cup {Instr("LOAD_NAME", "n", "", 0, Wide(0), NoLine)}
    \cup {Instr("LOAD_FAST", v, "", 0, Wide(0), NoLine) : v \in {"a", "y"}}
    \cup {Instr("LOAD_DEREF", "c", r, 0, Wide(0), NoLine) : r \in {"cell", "free"}}
    \cup {Instr("BUILD_MAP", "", "", 0, w, NoLine) : w \in RawValues}

\* The jump instructions of a list of n instructions: every target in the list,
\* and a target outside it.
JumpInstrs(classes, n) ==
    {Instr(c, "", "", t, Wide(0), NoLine) : c \in classes, t \in (0..(n - 1)) \cup {Dangling}}

AsmJumpClasses == {"JUMP_ABSOLUTE", "JUMP_FORWARD", "FOR_ITER"}

\* The line annotations of a list: none, or the lines after firstlineno in order.
WithLines(ops, first, annotate) ==
    [i \in 1..Len(ops) |-> [ops[i] EXCEPT !.line = IF annotate THEN first + i ELSE NoLine]]

AsmLists ==
    UNION {[1..n -> PlainInstrs \cup JumpInstrs(AsmJumpClasses, n)] : n \in 0..MaxOps}

AsmUnits ==
    {MkUnit(WithLines(ops, m.firstlineno, ann), m) :
        ops \in AsmLists, m \in Metas, ann \in BOOLEAN}

\* Long lists: an unconditional jump over a run of unreachable NOPs to its
\* target, with the target at addresses 0xFFFF and 0x10000 (JUMP_ABSOLUTE) and
\* at relative offsets 0xFFFF and 0x10000 (JUMP_FORWARD).
FarUnits ==
    {MkUnit(<<Instr(j, "", "", k + 1, Wide(0), NoLine), Run("NOP", k), t>>, MetaModule) :
        j \in {"JUMP_ABSOLUTE", "JUMP_FORWARD"},
        k \in {MaxU16 - 3, MaxU16 - 2, MaxU16, MaxU16 + 1},
        t \in {Instr("YIELD_VALUE", "", "", 0, Wide(0), NoLine),
               Instr("BUILD_MAP", "", "", 0, Wide(MaxU16 + 1), NoLine)}}

\* Annotated lists: an unconditional jump over a run of unreachable NOPs to its
\* target, the jump and the target carrying line annotations (op.lineno) that
\* lie before, at and after the previous annotated line, up to several times
\* 255 lines and 255 bytes apart.
LineUnits ==
    {MkUnit(<<Instr("JUMP_FORWARD", "", "", k + 1, Wide(0), l1), Run("NOP", k),
              Instr("YIELD_VALUE", "", "", 0, Wide(0), l2)>>, MetaModule) :
        k \in {1, 252, 253, 507, 600},
        l1 \in {NoLine, 1, 2, 300},
        l2 \in {NoLine, 0, 1, 2, 256, 300, 511, 900}}

\* The instructions of the code objects given to from_code, as the interpreter's
\* compiler writes them: [cls, hi, lo] is the instruction with operand
\* hi * 65536 + lo, written with an EXTENDED_ARG prefix when hi > 0.  Jump
\* operands are byte addresses (JUMP_ABSOLUTE) and byte offsets (JUMP_FORWARD).
PyInstrs ==
    {[cls |-> "YIELD_VALUE", hi |-> 0, lo |-> 0], [cls |-> "LOAD_CONST", hi |-> 0, lo |-> 0]}
    \cup {[cls |-> "BUILD_MAP", hi |-> h, lo |-> l] : h \in {0, 1}, l \in {0, 5}}
    \cup {[cls |-> "JUMP_ABSOLUTE", hi |-> 0, lo |-> t] : t \in {0, 3, 6}}
    \cup {[cls |-> "JUMP_FORWARD", hi |-> 0, lo |-> t] : t \in {0, 3}}

\* The bytes of one instruction.
PyBytes(x) ==
    (IF x.hi > 0 THEN <<OpCode("EXTENDED_ARG"), Byte(x.hi), Byte(Shr8(x.hi))>> ELSE <<>>)
    \o <<OpCode(x.cls)>>
    \o (IF HasArg(x.cls) THEN <<Byte(x.lo), Byte(Shr8(x.lo))>> ELSE <<>>)

RECURSIVE PyCode(_)
\* co_code: the bytes of the instructions one after the other.
PyCode(xs) ==
    IF xs = <<>> THEN <<>>
    ELSE [k \in 1..Len(PyBytes(Head(xs))) |-> <<PyBytes(Head(xs))[k], 1>>] \o PyCode(Tail(xs))

\* A code object of a module-level block with these instructions.
PyCodeObject(xs) ==
    [co_argcount |-> 0,
     co_kwonlyargcount |-> 0,
     co_nlocals |-> 0,
     co_stacksize |-> MaxDecOps,
     co_flags |-> CO_NOFREE,
     co_code |-> PyCode(xs),
     co_consts |-> <<"None">>,
     co_names |-> <<>>,
     co_varnames |-> <<>>,
     co_filename |-> "<string>",
     co_name |-> "<module>",
     co_firstlineno |-> 1,
     co_lnotab |-> <<>>,
     co_freevars |-> <<>>,
     co_cellvars |-> <<>>]

PyCodeObjects == {PyCodeObject(xs) : xs \in UNION {[1..n -> PyInstrs] : n \in 0..MaxDecOps}}

\* The inputs of the stack analysis: lists of at most MaxStackOps instructions
\* with at most MaxJumps jumps.
StackJumpClasses ==
    {"JUMP_ABSOLUTE", "JUMP_FORWARD", "POP_JUMP_IF_FALSE", "FOR_ITER", "SETUP_EXCEPT"}

StackInstrs(n) ==
    {Instr("POP_TOP", "", "", 0, Wide(0), NoLine),
     Instr("LOAD_CONST", "k", "", 0, Wide(0), NoLine),
     Instr("JUMP_ABSOLUTE", "", "", Dangling, Wide(0), NoLine)}
    \cup {Instr(c, "", "", t, Wide(0), NoLine) : c \in StackJumpClasses, t \in 0..(n - 1)}

NumJumps(ops) == Cardinality({i \in 1..Len(ops) : IsJump(ops[i].cls)})

StackLists ==
    UNION {{ops \in [1..n -> StackInstrs(n)] : NumJumps(ops) <= MaxJumps} :
              n \in 0..MaxStackOps}

StackUnits == {MkUnit(ops, MetaModule) : ops \in StackLists}

\* Longer lists in which a branch leaves two paths that meet again: a push, a
\* branch into the three instructions after it, and a closing jump back into
\* them.
JoinUnits ==
    {MkUnit(<<Instr("LOAD_CONST", "k", "", 0, Wide(0), NoLine),
              Instr(b, "", "", t1, Wide(0), NoLine),
              x[1], x[2], x[3],
              Instr("JUMP_ABSOLUTE", "", "", t2, Wide(0), NoLine)>>, MetaModule) :
        b \in {"POP_JUMP_IF_FALSE", "FOR_ITER"},
        t1 \in 2..4,
        t2 \in 2..4,
        x \in [1..3 -> {Instr("LOAD_CONST", "k", "", 0, Wide(0), NoLine),
                        Instr("POP_TOP", "", "", 0, Wide(0), NoLine)}]}

\* ---------------------------------------------------------------------- state
VARIABLES
    unit,        \* the Code Unit (self)
    entry,       \* the method called: "to_code" or "_calc_stack_size"
    pc,          \* where the call is
    err,         \* the exception raised by to_code / _calc_stack_size, "" for none
    asm,         \* to_code's locals: the pools, code, addrs, jumps, lnotab
    jidx,        \* Stage 3: the index of the next queued jump
    seen,        \* _calc_stack_size: the instructions on the active path
    startdepths, \* _calc_stack_size: the depth each instruction was last entered at
    maxdepth,    \* _calc_stack_size: maxdepth, handed from call to call
    wstack,      \* the active calls of walk: [idx, depth, at]
    wcall,       \* the call of walk about to run: <<[idx, depth]>>, or <<>>
    arrivals,    \* history: the (instruction, depth) pairs walk was called with
    stacksize,   \* <<value>> once _calc_stack_size has returned
    binary,      \* <<code object>> once to_code has returned
    decoded,     \* <<Code Unit>> once from_code has returned
    derr         \* the exception raised by from_code, "" for none

vars == <<unit, entry, pc, err, asm, jidx, seen, startdepths, maxdepth, wstack, wcall,
          arrivals, stacksize, binary, decoded, derr>>

asmVars == <<asm, jidx>>

walkVars == <<seen, startdepths, maxdepth, wstack, wcall, arrivals>>

outVars == <<binary, decoded, derr>>

NoAsm ==
    [co_varnames |-> <<>>, co_argcount |-> 0, co_kwonlyargcount |-> 0, co_names |-> <<>>,
     co_cellvars |-> <<>>, co_freevars |-> <<>>, co_consts |-> <<>>,
     code |-> <<>>, addrs |-> <<>>, jumps |-> <<>>, lnotab |-> <<>>]

NoDepths == [k \in {} |-> 0]

Blank ==
    /\ err = ""
    /\ asm = NoAsm
    /\ jidx = 1
    /\ seen = {}
    /\ startdepths = NoDepths
    /\ maxdepth = 0
    /\ wstack = <<>>
    /\ wcall = <<>>
    /\ arrivals = {}
    /\ stacksize = <<>>
    /\ binary = <<>>
    /\ decoded = <<>>
    /\ derr = ""

\* A Code Unit has been constructed and to_code is called on it.
Init ==
    /\ unit \in AsmUnits \cup FarUnits \cup LineUnits
    /\ entry = "to_code"
    /\ pc = "to_code"
    /\ Blank

\* A Code Unit has been constructed and _calc_stack_size is called on it.
InitStack ==
    /\ unit \in StackUnits \cup JoinUnits
    /\ entry = "_calc_stack_size"
    /\ pc = "calc"
    /\ Blank

\* Code.from_code is called on a code object of the interpreter.
InitDec ==
    /\ unit = MkUnit(<<>>, MetaDefault)
    /\ entry = "from_code"
    /\ pc = "encoded"
    /\ err = ""
    /\ asm = NoAsm
    /\ jidx = 1
    /\ seen = {}
    /\ startdepths = NoDepths
    /\ maxdepth = 0
    /\ wstack = <<>>
    /\ wcall = <<>>
    /\ arrivals = {}
    /\ stacksize = <<>>
    /\ binary \in {<<b>> : b \in PyCodeObjects}
    /\ decoded = <<>>
    /\ derr = ""

\* ------------------------------------------------------------ to_code, steps
\* A Stage 1 that stores the local-name table it builds back into the unit.
ToCodeStage1StoringVarnames ==
    /\ pc = "to_code"
    /\ unit.has_kwonlyargs
    /\ err' = err
    /\ pc' = "stage2"
    /\ asm' = [p \in DOMAIN NoAsm |->
                  IF p \in DOMAIN Pools(unit) THEN Pools(unit)[p] ELSE NoAsm[p]]
    /\ unit' = [unit EXCEPT !.varnames = Pools(unit).co_varnames]
    /\ UNCHANGED <<entry, jidx, stacksize>>
    /\ UNCHANGED walkVars
    /\ UNCHANGED outVars

\* Lines 245-284: the pools are built; len(self.kwonlyargs) raises TypeError
\* when kwonlyargs is None.
ToCodeStage1 ==
    /\ pc = "to_code"
    /\ IF ~unit.has_kwonlyargs
       THEN /\ err' = "TypeError"
            /\ pc' = "failed"
            /\ asm' = asm
       ELSE /\ err' = err
            /\ pc' = "stage2"
            /\ asm' = [p \in DOMAIN NoAsm |->
                          IF p \in DOMAIN Pools(unit) THEN Pools(unit)[p] ELSE NoAsm[p]]
    /\ UNCHANGED <<unit, entry, jidx, stacksize>>
    /\ UNCHANGED walkVars
    /\ UNCHANGED outVars

\* Lines 295-382: the bytes, the address table, the jump queue and the line
\* table are written; lnotab.extend raises ValueError.
ToCodeStage2 ==
    /\ pc = "stage2"
    /\ LET a == Emit(unit.ops, 0, asm, EmitStart(unit))
       IN  IF a.err # ""
           THEN /\ err' = a.err
                /\ pc' = "failed"
                /\ asm' = asm
           ELSE /\ err' = err
                /\ pc' = IF a.jumps = <<>> THEN "calc" ELSE "stage3"
                /\ asm' = [asm EXCEPT !.code = a.code, !.addrs = a.addrs,
                                      !.jumps = a.jumps, !.lnotab = a.lnotab]
    /\ jidx' = 1
    /\ UNCHANGED <<unit, entry, stacksize>>
    /\ UNCHANGED walkVars
    /\ UNCHANGED outVars

\* Lines 387-396: one turn of the loop of Stage 3; an exception ends to_code.
ToCodeRelocate ==
    /\ pc = "stage3"
    /\ jidx <= Len(asm.jumps)
    /\ LET r == Relocate(asm.addrs, asm.code, asm.jumps[jidx])
       IN  IF r.err # ""
           THEN /\ err' = r.err
                /\ pc' = "failed"
                /\ UNCHANGED asmVars
           ELSE /\ err' = err
                /\ asm' = [asm EXCEPT !.code = r.code]
                /\ jidx' = jidx + 1
                /\ pc' = IF jidx = Len(asm.jumps) THEN "calc" ELSE "stage3"
    /\ UNCHANGED <<unit, entry, stacksize>>
    /\ UNCHANGED walkVars
    /\ UNCHANGED outVars

\* Lines 401-424: the code object is assembled from the locals, the stack size
\* and the flags.
CodeType ==
    [co_argcount |-> asm.co_argcount,
     co_kwonlyargcount |-> asm.co_kwonlyargcount,
     co_nlocals |-> Len(asm.co_varnames),
     co_stacksize |-> stacksize[1],
     co_flags |-> CalcFlags(unit),
     co_code |-> asm.code,
     co_consts |-> asm.co_consts,
     co_names |-> asm.co_names,
     co_varnames |-> asm.co_varnames,
     co_filename |-> unit.filename,
     co_name |-> unit.name,
     co_firstlineno |-> unit.firstlineno,
     co_lnotab |-> asm.lnotab,
     co_freevars |-> asm.co_freevars,
     co_cellvars |-> asm.co_cellvars]

ToCodeStage4 ==
    /\ pc = "stage4"
    /\ binary' = <<CodeType>>
    /\ pc' = "encoded"
    /\ UNCHANGED <<unit, entry, err, stacksize, decoded, derr>>
    /\ UNCHANGED asmVars
    /\ UNCHANGED walkVars

\* ---------------------------------------------------- _calc_stack_size, steps
\* Lines 162-165 and 210: the locals are set up and walk(0, 0, 0) is called.
CalcStart ==
    /\ pc = "calc"
    /\ seen' = {}
    /\ startdepths' = NoDepths
    /\ maxdepth' = 0
    /\ wstack' = <<>>
    /\ wcall' = <<[idx |-> 0, depth |-> 0]>>
    /\ arrivals' = {}
    /\ pc' = "walk"
    /\ UNCHANGED <<unit, entry, err, stacksize>>
    /\ UNCHANGED asmVars
    /\ UNCHANGED outVars

\* Lines 168-206: a call of walk runs up to its first recursive call, its return
\* or its exception.  An exception passes the finally of this call at once
\* (seen.discard(op)) and is then in err; the callers' finally clauses follow in
\* WalkUnwind.
WalkCall ==
    /\ pc = "walk"
    /\ err = ""
    /\ wcall # <<>>
    /\ LET idx == wcall[1].idx
           depth == wcall[1].depth
       IN  IF idx >= ExpLen(unit.ops)
           THEN /\ wcall' = <<>>
                /\ UNCHANGED <<seen, startdepths, maxdepth, wstack, arrivals, err>>
           ELSE IF WalkSkips(idx, depth, seen, startdepths)
           THEN /\ wcall' = <<>>
                /\ arrivals' = arrivals \cup {<<idx, depth>>}
                /\ UNCHANGED <<seen, startdepths, maxdepth, wstack, err>>
           ELSE LET op == OpAt(unit.ops, idx)
                    out == depth + StackEffect(op.cls)
                    raises == IF out < 0 THEN "AssertionError"
                              ELSE IF IsJump(op.cls) /\ ~InOps(unit.ops, op.target)
                                   THEN "ValueError"
                              ELSE ""
                IN  /\ arrivals' = arrivals \cup {<<idx, depth>>}
                    /\ startdepths' = SetDepth(startdepths, idx, depth)
                    /\ maxdepth' = IF out < 0 THEN maxdepth ELSE MaxAfter(op, out, maxdepth)
                    /\ err' = raises
                    /\ IF raises # ""
                       THEN /\ wcall' = <<>>
                            /\ UNCHANGED <<seen, wstack>>
                       ELSE /\ seen' = seen \cup {idx}
                            /\ IF IsJump(op.cls)
                               THEN /\ wstack' = Append(wstack, [idx |-> idx, depth |-> out,
                                                                 at |-> "jump"])
                                    /\ wcall' = <<[idx |-> op.target,
                                                   depth |-> TargetDepth(op.cls, out)]>>
                               ELSE /\ wstack' = Append(wstack, [idx |-> idx, depth |-> out,
                                                                 at |-> "tail"])
                                    /\ wcall' = <<[idx |-> idx + 1, depth |-> out]>>
    /\ UNCHANGED <<unit, entry, pc, stacksize>>
    /\ UNCHANGED asmVars
    /\ UNCHANGED outVars

\* Lines 201-208: a recursive call has returned to the innermost active call:
\* after the call for the jump edge the walk goes on to idx + 1, unless the
\* instruction has no fall-through edge; after the call for idx + 1, or without
\* one, the call returns through its finally (seen.discard(op)).
WalkReturn ==
    /\ pc = "walk"
    /\ err = ""
    /\ wcall = <<>>
    /\ wstack # <<>>
    /\ LET top == wstack[Len(wstack)]
           op == OpAt(unit.ops, top.idx)
       IN  IF top.at = "jump" /\ ~NoFallThrough(op.cls)
           THEN /\ wstack' = [wstack EXCEPT ![Len(wstack)].at = "tail"]
                /\ wcall' = <<[idx |-> top.idx + 1, depth |-> top.depth]>>
                /\ seen' = seen
           ELSE /\ wstack' = SubSeq(wstack, 1, Len(wstack) - 1)
                /\ wcall' = <<>>
                /\ seen' = seen \ {top.idx}
    /\ UNCHANGED <<unit, entry, pc, err, startdepths, maxdepth, arrivals, stacksize>>
    /\ UNCHANGED asmVars
    /\ UNCHANGED outVars

\* Lines 207-208: an exception leaves the innermost active call through its finally.
WalkUnwind ==
    /\ pc = "walk"
    /\ err # ""
    /\ wstack # <<>>
    /\ wstack' = SubSeq(wstack, 1, Len(wstack) - 1)
    /\ seen' = seen \ {wstack[Len(wstack)].idx}
    /\ UNCHANGED <<unit, entry, pc, err, startdepths, maxdepth, wcall, arrivals, stacksize>>
    /\ UNCHANGED asmVars
    /\ UNCHANGED outVars

\* Line 210 (and 413): walk(0, 0, 0) has returned its maxdepth, or its exception
\* leaves _calc_stack_size and, in to_code, to_code.
CalcDone ==
    /\ pc = "walk"
    /\ wcall = <<>>
    /\ wstack = <<>>
    /\ stacksize' = IF err = "" THEN <<maxdepth>> ELSE <<>>
    /\ pc' = IF err # "" THEN "failed"
             ELSE IF entry = "to_code" THEN "stage4" ELSE "done"
    /\ UNCHANGED <<unit, entry, err>>
    /\ UNCHANGED asmVars
    /\ UNCHANGED walkVars
    /\ UNCHANGED outVars

\* ------------------------------------------------------------------ from_code
\* Code.from_code(pycode): the code object, to_code's or the interpreter's, is
\* decoded.
FromCodeCall ==
    /\ pc = "encoded"
    /\ LET r == FromCode(binary[1])
       IN  /\ derr' = r.err
           /\ decoded' = r.unit
    /\ pc' = "done"
    /\ UNCHANGED <<unit, entry, err, stacksize, binary>>
    /\ UNCHANGED asmVars
    /\ UNCHANGED walkVars

\* ------------------------------------------------------------- specifications
NextStack == CalcStart \/ WalkCall \/ WalkReturn \/ WalkUnwind \/ CalcDone

Next ==
    \/ ToCodeStage1
    \/ ToCodeStage2
    \/ ToCodeRelocate
    \/ NextStack
    \/ ToCodeStage4
    \/ FromCodeCall

Spec == Init /\ [][Next]_vars

StackSpec == InitStack /\ [][NextStack]_vars

DecSpec == InitDec /\ [][FromCodeCall]_vars

\* _calc_stack_size runs without suspension: a step that can be taken is taken.
FairStackSpec == StackSpec /\ WF_vars(NextStack)

\* --------------------------------------------------------------------- claims
\* to_code has returned a code object.
Encoded == binary # <<>>

\* The call under way has ended.
Ended == pc \in {"done", "failed"}

\* The operand of the instruction, as to_code resolves it (pools built).
ArgOf(op) == ResolveArg(op, asm)

\* The queued jumps Stage 3 has patched.
Patched == {k \in 1..Len(asm.jumps) : k < jidx}

\* The value Stage 3 resolves for queued jump k whose target has an address.
ValueOf(k) == JumpValue(asm.addrs, asm.jumps[k])

\* Every jump operand of the unit references an instruction of its ops.
JumpsClosed(u) ==
    \A i \in 1..Len(u.ops) : IsJump(u.ops[i].cls) => InOps(u.ops, u.ops[i].target)

\* The same opcode, symbolic operand and line annotation.
SameInstr(a, b) ==
    /\ a.cls = b.cls
    /\ a.rep = b.rep
    /\ a.line = b.line
    /\ LET cat == Category(a.cls)
       IN  CASE cat \in {"LOCAL", "NAME", "CONST"} -> a.sym = b.sym
             [] cat = "FREE" -> a.sym = b.sym /\ a.role = b.role
             [] cat \in {"JREL", "JABS"} -> a.target = b.target
             [] cat = "RAW" -> a.arg = b.arg
             [] OTHER -> TRUE

SameOps(xs, ys) ==
    /\ Len(xs) = Len(ys)
    /\ \A i \in 1..Len(xs) : SameInstr(xs[i], ys[i])

\* C1 (as claimed): once from_code(u.to_code()) has ended for a unit whose jump
\* operands all reference instructions of u.ops and whose resolved jump values
\* are in 0..0xFFFF, it has returned a unit with the same opcodes, the same
\* symbolic operands and the same line annotations.
C1_RoundTrip ==
    (/\ pc = "done"
     /\ Encoded
     /\ JumpsClosed(unit)
     /\ \A k \in 1..Len(asm.jumps) : ValueOf(k) \in 0..MaxU16)
    => /\ derr = ""
       /\ decoded # <<>>
       /\ SameOps(unit.ops, decoded[1].ops)

\* The instructions of the unit whose resolved operand exceeds 0xFFFF.
WideInstrs == {i \in 1..Len(unit.ops) : ArgOf(unit.ops[i]) # <<>> /\ Above16(ArgOf(unit.ops[i])[1])}

\* C2 (as claimed): when an instruction's resolved operand exceeds 0xFFFF,
\* from_code applied to the bytes of to_code reconstructs the instructions one
\* for one, that instruction with exactly the original operand value.
C2_ExtendedArgRoundTrip ==
    (pc = "done" /\ Encoded /\ WideInstrs # {})
    => /\ derr = ""
       /\ decoded # <<>>
       /\ Len(decoded[1].ops) = Len(unit.ops)
       /\ \A i \in 1..Len(unit.ops) :
              /\ decoded[1].ops[i].cls = unit.ops[i].cls
              /\ i \in WideInstrs => decoded[1].ops[i].arg = ArgOf(unit.ops[i])[1]

\* The queued jumps whose target has an address (Stage 3 can resolve them).
Resolvable == {k \in 1..Len(asm.jumps) : HasAddr(asm.addrs, asm.jumps[k][3])}

\* C3: in Stage 3 a jump that resolves to exactly 0xFFFF is not refused and is
\* patched as the bytes FF FF; a jump that resolves to 0x10000 is never patched:
\* to_code fails at it with the offset-range error (Exception) and returns no
\* code object.
C3_OffsetBoundary ==
    \A k \in Resolvable :
        /\ ValueOf(k) = MaxU16 =>
              /\ ~(pc = "failed" /\ jidx = k)
              /\ k \in Patched =>
                    /\ CodeAt(asm.code, asm.jumps[k][2] + 1) = 255
                    /\ CodeAt(asm.code, asm.jumps[k][2] + 2) = 255
        /\ ValueOf(k) = MaxU16 + 1 =>
              /\ k \notin Patched
              /\ ~Encoded
              /\ pc \in {"stage3", "failed"}
              /\ (pc = "failed" /\ jidx = k) => err = "Exception"

\* C3's case: a jump that resolves to 0xFFFF has been patched and to_code has
\* returned its code object.
C3_Witness ==
    /\ Encoded
    /\ \E k \in Patched : ValueOf(k) = MaxU16

\* C4 (as claimed): no value outside 0..0xFFFF is ever patched into the bytes:
\* every jump Stage 3 has passed resolved to a value in 0..0xFFFF.
C4_RangeChecked ==
    \A k \in Patched : ValueOf(k) \in 0..MaxU16

\* The unit has a jump operand that references an instruction outside its ops.
HasDangling(u) == ~JumpsClosed(u)

\* C5: to_code called on a unit with a dangling jump operand never returns a
\* code object: it never gets past Stage 3, and where it ends it has raised.
C5_DanglingJumpFails ==
    HasDangling(unit) =>
        /\ ~Encoded
        /\ pc \in {"to_code", "stage2", "stage3", "failed"}
        /\ pc = "failed" => err # ""

\* C5's case: to_code has failed at the dangling jump, after instructions
\* before it were emitted.
C5_Witness ==
    /\ HasDangling(unit)
    /\ Len(unit.ops) > 1
    /\ pc = "failed"
    /\ err = "KeyError"

\* C6 (as claimed): once Stage 2 has run on a unit with an operand above
\* 0xFFFFFFFF, to_code has failed with the offset-range error.
C6_WideOperandRejected ==
    (/\ pc \notin {"to_code", "stage2"}
     /\ unit.has_kwonlyargs
     /\ \E i \in 1..Len(unit.ops) :
            Category(unit.ops[i].cls) = "RAW" /\ Above32(unit.ops[i].arg))
    => (pc = "failed" /\ err = "Exception")

\* C7: no step of to_code, whether the call returns or raises, changes the
\* Code Unit: its instruction list and its metadata fields stay as they were.
C7_UnitReadOnly == [][unit' = unit]_vars

\* C7's case: to_code has run through all its stages on a unit with
\* instructions, jumps and declared names.
C7_Witness ==
    /\ Encoded
    /\ asm.jumps # <<>>
    /\ unit.args # <<>>

\* ----------------------------------------------------- claims, stack analysis
\* The unit has no jump instruction.
NoJumps(u) == \A i \in 1..Len(u.ops) : ~IsJump(u.ops[i].cls)

\* The running sum of the stack effects of the first n instructions.
RECURSIVE PrefixSum(_, _)
PrefixSum(ops, n) ==
    IF n = 0 THEN 0 ELSE PrefixSum(ops, n - 1) + StackEffect(OpAt(ops, n - 1).cls)

PrefixSums(ops) == {PrefixSum(ops, n) : n \in 0..ExpLen(ops)}

MaxPrefix(ops) == CHOOSE m \in PrefixSums(ops) : \A x \in PrefixSums(ops) : m >= x

MinPrefix(ops) == CHOOSE m \in PrefixSums(ops) : \A x \in PrefixSums(ops) : m <= x

\* C8 (as claimed): for a unit without jump instructions _calc_stack_size
\* returns the maximum over all prefixes of the running sum of stack effects.
C8_LinearDepthAlways ==
    (Ended /\ NoJumps(unit)) => stacksize = <<MaxPrefix(unit.ops)>>

\* C8 (amended): for a unit without jump instructions, _calc_stack_size returns
\* the maximum over all prefixes of the running sum of stack effects when no
\* prefix sum is negative, and raises AssertionError (the assert of line 182)
\* when one is.
C8_LinearDepth ==
    (Ended /\ NoJumps(unit)) =>
        IF MinPrefix(unit.ops) >= 0
        THEN pc = "done" /\ err = "" /\ stacksize = <<MaxPrefix(unit.ops)>>
        ELSE pc = "failed" /\ err = "AssertionError" /\ stacksize = <<>>

\* C8's case: several instructions of stack effect +1 and nothing else; the
\* depth returned is their number.
C8_Witness ==
    /\ pc = "done"
    /\ Len(unit.ops) >= 2
    /\ \A i \in 1..Len(unit.ops) : StackEffect(unit.ops[i].cls) = 1
    /\ stacksize = <<Len(unit.ops)>>

\* Every jump of the unit goes forward to an instruction of the unit: its
\* control-flow graph has no cycle.
ForwardOnly(u) ==
    \A i \in 1..Len(u.ops) :
        IsJump(u.ops[i].cls) => u.ops[i].target \in i..(ExpLen(u.ops) - 1)

\* The depths at which walk was called on the instruction.
ArrivalDepths(idx) == {a[2] : a \in {x \in arrivals : x[1] = idx}}

ArrivedAt == {a[1] : a \in arrivals}

MaxArrival(idx) == CHOOSE d \in ArrivalDepths(idx) : \A e \in ArrivalDepths(idx) : d >= e

\* C9 (as claimed): when _calc_stack_size returns a depth for a unit whose
\* jumps all go forward, the paths that reached one instruction all reached it
\* at the same entry depth.
C9_DiamondAgreesOrRaises ==
    (pc = "done" /\ ForwardOnly(unit)) =>
        \A idx \in ArrivedAt : Cardinality(ArrivalDepths(idx)) = 1

\* C9 (amended): on a unit whose jumps all go forward, paths that reach a join
\* at different entry depths raise nothing by disagreeing: the join is analysed
\* at the greatest entry depth that reaches it and a depth is returned; the only
\* error is AssertionError, raised at an instruction whose exit depth is negative.
C9_JoinAtGreatestDepth ==
    (Ended /\ ForwardOnly(unit)) =>
        /\ err \in {"", "AssertionError"}
        /\ err = "AssertionError" =>
              \E a \in arrivals : a[2] + StackEffect(OpAt(unit.ops, a[1]).cls) < 0
        /\ err = "" =>
              /\ stacksize = <<maxdepth>>
              /\ \A idx \in ArrivedAt : startdepths[idx] = MaxArrival(idx)

\* C9's case: two forward paths reached a join at different depths and
\* _calc_stack_size returned a depth, no smaller than the join's entry depth.
C9_Witness ==
    /\ pc = "done"
    /\ ForwardOnly(unit)
    /\ \E idx \in ArrivedAt :
           /\ Cardinality(ArrivalDepths(idx)) > 1
           /\ idx \in DOMAIN startdepths
           /\ stacksize # <<>>
           /\ stacksize[1] >= startdepths[idx]

\* The calls of walk that have not returned are calls on pairwise different
\* instructions, and seen holds exactly these instructions.
NoReentry ==
    /\ \A i, j \in 1..Len(wstack) : wstack[i].idx = wstack[j].idx => i = j
    /\ pc = "walk" => seen = {wstack[i].idx : i \in 1..Len(wstack)}

\* C10: _calc_stack_size terminates on every unit, cyclic ones included, by
\* returning a depth or raising, and walk never enters an instruction that is
\* on the active traversal path.
C10_TerminatesWithoutReentry == []NoReentry /\ <>Ended

\* C10's case: a loop of positive net stack effect: its head was reached again,
\* deeper than it was entered, while on the active path, and a depth returned.
C10_Witness ==
    /\ pc = "done"
    /\ \E i \in 1..Len(unit.ops) :
           /\ IsJump(unit.ops[i].cls)
           /\ unit.ops[i].target \in 0..(i - 1)
           /\ \E d \in ArrivalDepths(unit.ops[i].target) :
                  d > startdepths[unit.ops[i].target]

\* The exit depth of the instruction entered at the arrival a = <<idx, depth>>.
ExitDepth(a) == a[2] + StackEffect(OpAt(unit.ops, a[1]).cls)

\* C11 (as claimed): when _calc_stack_size returns a depth, no traversed edge
\* reached an instruction at a negative depth, and no instruction reached
\* would be left at a negative depth, also one reached again at a lower depth.
C11_NonNegativeDepth ==
    pc = "done" => \A a \in arrivals : a[2] >= 0 /\ ExitDepth(a) >= 0

\* ------------------------------------------------------------- claims, flags
\* The bit when the condition holds.
BitIf(cond, bit) == IF cond THEN bit ELSE 0

\* Some instruction of the list is of one of the classes.
HasClass(ops, classes) == \E i \in 1..Len(ops) : ops[i].cls \in classes

\* The flags the unit is to have.
ExpectedFlags(u) ==
      BitIf(HasClass(u.ops, {"YIELD_VALUE"}), CO_GENERATOR)
    + BitIf(~\E i \in 1..Len(u.ops) : Category(u.ops[i].cls) = "FREE", CO_NOFREE)
    + BitIf(~HasClass(u.ops, {"LOAD_NAME", "STORE_NAME", "DELETE_NAME"}), CO_OPTIMIZED)
    + BitIf(u.vararg # "", CO_VARARGS)
    + BitIf(u.varkwarg # "", CO_VARKEYWORDS)
    + BitIf(u.newlocals, CO_NEWLOCALS)

\* The instruction lists that reorder ops.
Reorderings(ops) ==
    {[i \in 1..Len(ops) |-> ops[f[i]]] :
        f \in {g \in [1..Len(ops) -> 1..Len(ops)] :
                  \A i, j \in 1..Len(ops) : g[i] = g[j] => i = j}}

\* C12: the flags _calc_flags returned for the code object are exactly the six
\* conditional bits of the unit, and reordering the instructions gives the same.
C12_Flags ==
    Encoded =>
        /\ binary[1].co_flags = ExpectedFlags(unit)
        /\ \A ops \in Reorderings(unit.ops) :
               CalcFlags([unit EXCEPT !.ops = ops]) = binary[1].co_flags

\* C12's case: a generator function with a cell reference, *va and **kw: the
\* flags are GENERATOR, OPTIMIZED, VARARGS, VARKEYWORDS and NEWLOCALS, not NOFREE.
C12_Witness ==
    /\ Encoded
    /\ HasClass(unit.ops, {"YIELD_VALUE"})
    /\ \E i \in 1..Len(unit.ops) : unit.ops[i].role = "cell"
    /\ unit.vararg # ""
    /\ binary[1].co_flags = CO_GENERATOR + CO_OPTIMIZED + CO_VARARGS + CO_VARKEYWORDS
                            + CO_NEWLOCALS

\* ------------------------------------------------------------- claims, pools
\* The address at which the i-th item of unit.ops was emitted.
EmittedAt(i) == asm.addrs[i].addr

\* The 16-bit value in the two operand bytes of the instruction emitted at a.
OperandAt(code, a) == CodeAt(code, a + 1) + 256 * CodeAt(code, a + 2)

\* The instructions of the unit that reference the pool: by category and, for
\* the cell and free pools, by role.
Referencing(cat, role) ==
    {i \in 1..Len(unit.ops) :
        Category(unit.ops[i].cls) = cat /\ (cat = "FREE" => unit.ops[i].role = role)}

\* pool[idx] is the symbol (idx 0-based).
Holds(pool, idx, sym) == idx \in 0..(Len(pool) - 1) /\ pool[idx + 1] = sym

DuplicateFree(pool) == \A i, j \in 1..Len(pool) : pool[i] = pool[j] => i = j

\* The first instruction among insts that carries the symbol.
FirstUse(insts, sym) ==
    CHOOSE i \in insts : unit.ops[i].sym = sym /\ \A j \in insts : unit.ops[j].sym = sym => i <= j

\* From its position from on, the pool lists the symbols of insts, each once,
\* in the order of their first use.
FirstUseOrder(pool, from, insts) ==
    /\ {unit.ops[i].sym : i \in insts} \subseteq {pool[k] : k \in from..Len(pool)}
    /\ \A k \in from..Len(pool) : \E i \in insts : unit.ops[i].sym = pool[k]
    /\ \A k, l \in from..Len(pool) :
           k < l => FirstUse(insts, pool[k]) < FirstUse(insts, pool[l])
    /\ DuplicateFree(pool)

DeclaredNames(u) ==
    <<Range(u.args), Range(u.kwonlyargs), {u.vararg} \ {""}, {u.varkwarg} \ {""},
      Range(u.varnames)>>

\* The positional, keyword-only, vararg, varkwarg and plain-local names of the
\* unit are pairwise disjoint.
NamesDisjoint(u) ==
    \A i, j \in 1..5 : i # j => DeclaredNames(u)[i] \cap DeclaredNames(u)[j] = {}

\* The declared names in the order of the layout.
DeclaredLayout(u) ==
    u.args \o u.kwonlyargs
    \o (IF u.vararg # "" THEN <<u.vararg>> ELSE <<>>)
    \o (IF u.varkwarg # "" THEN <<u.varkwarg>> ELSE <<>>)
    \o u.varnames

\* C14 (as claimed): for a unit with pairwise disjoint declared names, to_code
\* builds the local pool as args, kwonlyargs, vararg, varkwarg, declared locals
\* (then the locals of the instructions) with the two counts, and from_code of
\* its code object returns the same args, kwonlyargs, vararg and varkwarg and
\* the rest of the pool as plain locals.
C14_LocalLayout ==
    NamesDisjoint(unit) =>
        /\ pc # "to_code" =>
              /\ asm.co_consts # <<>>
              /\ asm.co_argcount = Len(unit.args)
              /\ asm.co_kwonlyargcount = Len(unit.kwonlyargs)
              /\ Len(asm.co_varnames) >= Len(DeclaredLayout(unit))
              /\ SubSeq(asm.co_varnames, 1, Len(DeclaredLayout(unit))) = DeclaredLayout(unit)
        /\ pc = "done" =>
              /\ derr = ""
              /\ decoded # <<>>
              /\ decoded[1].args = unit.args
              /\ decoded[1].kwonlyargs = unit.kwonlyargs
              /\ decoded[1].vararg = unit.vararg
              /\ decoded[1].varkwarg = unit.varkwarg
              /\ decoded[1].varnames =
                     SubSeq(asm.co_varnames, Len(DeclaredLayout(unit)) - Len(unit.varnames) + 1,
                            Len(asm.co_varnames))

\* ------------------------------------------------- claims, extended arguments
\* C15 (as claimed): once Stage 2 has written the bytes, an instruction whose
\* operand exceeds 0xFFFF (and fits 32 bits) is laid out from its address on as
\* EXTENDED_ARG, bits 16-31 in two little-endian bytes, the instruction's own
\* opcode byte, bits 0-15 in two little-endian bytes.
C15_ExtendedArgLayout ==
    Len(asm.addrs) = Len(unit.ops) =>
        \A i \in WideInstrs :
            LET a == EmittedAt(i)
                w == ArgOf(unit.ops[i])[1]
            IN  ~Above32(w) =>
                    /\ CodeAt(asm.code, a) = OpCode("EXTENDED_ARG")
                    /\ CodeAt(asm.code, a + 1) = Byte(w.hi)
                    /\ CodeAt(asm.code, a + 2) = Byte(Shr8(w.hi))
                    /\ CodeAt(asm.code, a + 3) = OpCode(unit.ops[i].cls)
                    /\ CodeAt(asm.code, a + 4) = Byte(w.lo)
                    /\ CodeAt(asm.code, a + 5) = Byte(Shr8(w.lo))

\* --------------------------------------------------------- claims, from_code
RECURSIVE Written(_, _, _)
\* The instructions written in the bytes from address i on, EXTENDED_ARG
\* prefixes aside: the class, the value of the instruction's own two operand
\* bytes, and whether an EXTENDED_ARG precedes it.
Written(code, i, prefixed) ==
    IF i >= CodeLen(code) THEN <<>>
    ELSE LET cls == OPMAP(CodeAt(code, i))
         IN  IF cls = "EXTENDED_ARG" THEN Written(code, i + 3, TRUE)
             ELSE IF HasArg(cls)
             THEN <<[cls |-> cls, own |-> OperandAt(code, i), prefixed |-> prefixed]>>
                  \o Written(code, i + 3, FALSE)
             ELSE <<[cls |-> cls, own |-> 0, prefixed |-> FALSE]>>
                  \o Written(code, i + 1, FALSE)

\* C16 (as claimed): in the unit from_code returns, every instruction with an
\* operand that no EXTENDED_ARG precedes in the bytes has exactly the value of
\* its own two operand bytes as its operand.
C16_AccumulatorReset ==
    (pc = "done" /\ entry = "from_code" /\ decoded # <<>>) =>
        LET w == Written(binary[1].co_code, 0, FALSE)
        IN  /\ Len(decoded[1].ops) = Len(w)
            /\ \A k \in 1..Len(w) :
                   (HasArg(w[k].cls) /\ ~w[k].prefixed) => decoded[1].ops[k].arg = Wide(w[k].own)

\* C20 (as claimed): in the unit from_code returns, every jump operand
\* references an instruction of the returned ops.
C20_DecodedJumpsClosed ==
    (pc = "done" /\ entry = "from_code" /\ decoded # <<>>) => JumpsClosed(decoded[1])

\* -------------------------------------------------------- claims, relocation
\* C17 (as claimed): in the code object to_code returns, the two operand bytes
\* of every jump hold, little-endian, the address of its target (absolute jump)
\* or the target's address minus the jump's address plus 3 (relative jump).
C17_RelocationValues ==
    Encoded =>
        \A k \in 1..Len(asm.jumps) :
            OperandAt(binary[1].co_code, asm.jumps[k][2]) = ValueOf(k)

\* -------------------------------------------------------- claims, line table
RECURSIVE LineSteps(_, _, _, _, _)
\* For each annotated instruction, in order: <<its address minus the address
\* of the previous annotated instruction, its line minus the previous
\* annotated line>>.
LineSteps(ops, p, addr, lastpos, lastline) ==
    IF ops = <<>> THEN <<>>
    ELSE LET op == Head(ops)
             next == addr + op.rep * (1 + Len(ArgBytes(ResolveArg(op, p))))
         IN  IF op.line = NoLine
             THEN LineSteps(Tail(ops), p, next, lastpos, lastline)
             ELSE <<(<<addr - lastpos, op.line - lastline>>)>>
                  \o LineSteps(Tail(ops), p, next, addr, op.line)

RECURSIVE SumFrom(_, _)
\* xs[k] + xs[k + 2] + ...
SumFrom(xs, k) == IF k > Len(xs) THEN 0 ELSE xs[k] + SumFrom(xs, k + 2)

RECURSIVE AllEntries(_)
\* The entries appended for each step, one after the other.
AllEntries(steps) ==
    IF steps = <<>> THEN <<>>
    ELSE LnotabEntries(Head(steps)[1], Head(steps)[2]) \o AllEntries(Tail(steps))

\* The entries e appended for an annotated instruction whose differences are
\* dpos and dline are as the line-delta table requires.
EntriesFit(e, dpos, dline) ==
    /\ Len(e) >= 2
    /\ \A i \in 1..Len(e) : e[i] \in 0..255
    /\ SumFrom(e, 1) = dpos
    /\ SumFrom(e, 2) = dline
    /\ \A j \in 1..(Len(e) \div 2) : e[2 * j - 1] = 0 /\ e[2 * j] = 0 => dpos = 0 /\ dline = 0

\* Stage 2 of to_code has been run on the unit (Stage 1 did not raise).
Stage2Ran ==
    /\ entry = "to_code"
    /\ pc \notin {"to_code", "stage2"}
    /\ ~(pc = "failed" /\ err = "TypeError")

\* C18 (as claimed): for every annotated instruction, whatever its line relative
\* to the previous annotated line, Stage 2 appends at least one entry, every
\* component in 0..255, the byte-deltas summing to the address difference and
\* the line-deltas to the line difference, (0, 0) only when both are zero.
C18_LineTable ==
    Stage2Ran =>
        LET steps == LineSteps(unit.ops, asm, 0, 0, unit.firstlineno)
        IN  /\ ~(pc = "failed" /\ err = "ValueError" /\ asm.addrs = <<>>)
            /\ asm.lnotab = AllEntries(steps)
            /\ \A i \in 1..Len(steps) :
                   EntriesFit(LnotabEntries(steps[i][1], steps[i][2]), steps[i][1], steps[i][2])

\* ------------------------------------------------- claims, control-flow edges
\* The depth the jump edge of an instruction of class cls carries when d is the
\* instruction's exit depth.
EdgeDepth(cls, d) ==
    CASE cls \in {"SETUP_EXCEPT", "SETUP_FINALLY"} -> d + 3
      [] cls = "FOR_ITER" -> d - 2
      [] OTHER -> d

\* The arrival b is at the end of an edge leaving the arrival a.
EdgeBetween(a, b) ==
    LET op == OpAt(unit.ops, a[1])
    IN  \/ /\ ~(op.cls \in {"JUMP_ABSOLUTE", "JUMP_FORWARD"})
           /\ b = <<a[1] + 1, ExitDepth(a)>>
        \/ /\ IsJump(op.cls)
           /\ b = <<op.target, EdgeDepth(op.cls, ExitDepth(a))>>

\* The arrival walk memoised last for each instruction it entered.
Memoised == {<<i, startdepths[i]>> : i \in DOMAIN startdepths}

\* The instructions that follow an unconditional jump and are the target of
\* no jump.
OnlyFallenInto ==
    {i \in 1..(ExpLen(unit.ops) - 1) :
        /\ OpAt(unit.ops, i - 1).cls \in {"JUMP_ABSOLUTE", "JUMP_FORWARD"}
        /\ \A j \in 0..(ExpLen(unit.ops) - 1) :
               ~(IsJump(OpAt(unit.ops, j).cls) /\ OpAt(unit.ops, j).target = i)}

\* C19: with d the exit depth of an instruction, _calc_stack_size propagates d
\* along the fall-through edge, d + 3 (SETUP_EXCEPT, SETUP_FINALLY), d - 2
\* (FOR_ITER) or d (every other jump) along the jump edge, and nothing along a
\* fall-through edge of JUMP_ABSOLUTE or JUMP_FORWARD: every arrival but the
\* first is at the end of such an edge; when the analysis returns, both edges
\* of every memoised arrival have been followed, the result is at least d + 3
\* for a handler setup, and an instruction only fallen into after an
\* unconditional jump was never arrived at.
C19_Edges ==
    /\ \A b \in arrivals : b = <<0, 0>> \/ \E a \in arrivals : EdgeBetween(a, b)
    /\ OnlyFallenInto \cap ArrivedAt = {}
    /\ pc = "done" =>
          \A a \in Memoised :
              LET op == OpAt(unit.ops, a[1])
                  d == ExitDepth(a)
              IN  /\ \A i \in 0..(ExpLen(unit.ops) - 1), e \in {d, d + 3, d - 2} :
                         EdgeBetween(a, <<i, e>>) => <<i, e>> \in arrivals
                  /\ stacksize[1] >= d
                  /\ op.cls \in {"SETUP_EXCEPT", "SETUP_FINALLY"} => stacksize[1] >= d + 3

\* C19's case: the analysis returned 3 for a unit whose handler setup was
\* entered at depth 0 and in which an instruction only fallen into after an
\* entered unconditional jump pushes a value.
C19_Witness ==
    /\ pc = "done"
    /\ entry = "_calc_stack_size"
    /\ stacksize = <<3>>
    /\ \E a \in Memoised : OpAt(unit.ops, a[1]).cls = "SETUP_EXCEPT" /\ a[2] = 0
    /\ \E i \in OnlyFallenInto :
           /\ i - 1 \in ArrivedAt
           /\ OpAt(unit.ops, i).cls = "LOAD_CONST"

\* ------------------------------------------------------- claims, sound bound
\* The arrivals at the end of the control-flow edges that leave instruction idx
\* when its exit depth is d.
EdgesFrom(idx, d) ==
    LET op == OpAt(unit.ops, idx)
    IN  (IF op.cls \in {"JUMP_ABSOLUTE", "JUMP_FORWARD"} THEN {} ELSE {<<idx + 1, d>>})
        \cup (IF IsJump(op.cls) THEN {<<op.target, EdgeDepth(op.cls, d)>>} ELSE {})

RECURSIVE PathExits(_, _, _)
\* The exit depths of the instructions along every path of control-flow edges
\* that continues from an arrival at idx at the given depth and enters no
\* instruction of visited, and no instruction twice.
PathExits(idx, depth, visited) ==
    IF idx \notin 0..(ExpLen(unit.ops) - 1) \/ idx \in visited THEN {}
    ELSE LET d == depth + StackEffect(OpAt(unit.ops, idx).cls)
         IN  {d} \cup UNION {PathExits(e[1], e[2], visited \cup {idx}) : e \in EdgesFrom(idx, d)}

\* C21 (as claimed): a value _calc_stack_size returns is at least the exit
\* depth of every instruction along every path of control-flow edges that starts
\* at the first instruction at depth 0 and visits no instruction twice.
C21_SoundBound ==
    (pc = "done" /\ entry = "_calc_stack_size") =>
        \A d \in PathExits(0, 0, {}) : stacksize[1] >= d

=============================================================================
